---- MODULE Spec2Model ----
(***************************************************************************)
(* Kolibri flatpak wrapper (kolibri-flatpak-utils/kolibri_wrapper.py).     *)
(*                                                                         *)
(* The wrapper compares the cached list of content extensions with the     *)
(* active one, turns every channel comparison into content operations,     *)
(* applies them through the kolibri executable, writes the active list to  *)
(* the cache when all of them succeeded and finally runs kolibri with the  *)
(* command-line arguments.                                                 *)
(*                                                                         *)
(* Spec          one process run after the other: main() / Application.run *)
(* SpecClassify  the pure function from_channel_compare on every           *)
(*               combination of the flags of a channel comparison, and the *)
(*               apply methods of the operations it yields, called with a  *)
(*               run_kolibri_fn that records its arguments                 *)
(***************************************************************************)
EXTENDS Integers, Sequences, FiniteSets, TLC

VARIABLES
    disk_cache,         \* the persisted cache file (an extensions list)
    installed,          \* the extensions the flatpak environment holds
    cached_extensions,  \* Application.__cached_extensions
    active_extensions,  \* Application.__active_extensions
    pc,                 \* position of the process inside main() / run()
    plan,               \* what the generator __iter_content_operations yields
    idx,                \* number of operations all() has consumed so far
    success,            \* the local variable success of run()
    invocations,        \* the subprocess.run calls of this process that returned
    running,            \* the kolibri processes started and not yet exited
    cache_writes,       \* number of write_to_cache calls of this process
    result,             \* how the process ended
    previous,           \* how the process before this one ended
    channel_compare,    \* SpecClassify: the argument of from_channel_compare
    yielded             \* SpecClassify: the operations it yielded

vars == <<disk_cache, installed, cached_extensions, active_extensions, pc, plan, idx,
          success, invocations, running, cache_writes, result, previous,
          channel_compare, yielded>>

run_vars == <<disk_cache, installed, cached_extensions, active_extensions, plan, idx,
              success, invocations, cache_writes, result>>

(***************************************************************************)
(* Bounds of the model.                                                    *)
(***************************************************************************)
MaxExt == 3         \* extension refs are 1..MaxExt
MaxExitCode == 1    \* exit statuses of the kolibri executable are 0..MaxExitCode

Extensions == 1..MaxExt
ExitCodes == 0..MaxExitCode
ChannelOrder == <<"c1", "c2">>
Channels == {ChannelOrder[i] : i \in DOMAIN ChannelOrder}
Nodes == {"n1", "n2", "n3"}

KOLIBRI == <<"/app/libexec/kolibri">>
KOLIBRI_HOME == <<"KOLIBRI_HOME">>
NoDir == <<>>       \* extension_dir is None

(***************************************************************************)
(* Content operations.                                                     *)
(***************************************************************************)
ImportChannel(channel_id, extension_dir) ==
    [type |-> "ImportChannel", channel_id |-> channel_id,
     extension_dir |-> extension_dir]

ImportContent(channel_id, extension_dir, include_node_ids, exclude_node_ids) ==
    [type |-> "ImportContent", channel_id |-> channel_id,
     extension_dir |-> extension_dir,
     include_node_ids |-> include_node_ids,
     exclude_node_ids |-> exclude_node_ids]

RescanContent(channel_id, removed) ==
    [type |-> "RescanContent", channel_id |-> channel_id, removed |-> removed]

ImportPair(cc) ==
    << ImportChannel(cc.channel_id, cc.extension_dir),
       ImportContent(cc.channel_id, cc.extension_dir,
                     cc.new_include_node_ids, cc.new_exclude_node_ids) >>

\* the removed branch tested before the added one
from_channel_compare_removed_first(cc) ==
    IF cc.removed THEN << RescanContent(cc.channel_id, TRUE) >>
    ELSE IF cc.added THEN ImportPair(cc)
    ELSE IF cc.exclude_nodes_added THEN << RescanContent(cc.channel_id, FALSE) >>
    ELSE IF cc.include_nodes_removed THEN << RescanContent(cc.channel_id, FALSE) >>
    ELSE ImportPair(cc)

\* the removed branch forgets removed=True
from_channel_compare_plain_rescan(cc) ==
    IF cc.added THEN ImportPair(cc)
    ELSE IF cc.removed THEN << RescanContent(cc.channel_id, FALSE) >>
    ELSE IF cc.exclude_nodes_added THEN << RescanContent(cc.channel_id, FALSE) >>
    ELSE IF cc.include_nodes_removed THEN << RescanContent(cc.channel_id, FALSE) >>
    ELSE ImportPair(cc)

\* the include_nodes_removed branch is missing
from_channel_compare_no_include_branch(cc) ==
    IF cc.added THEN ImportPair(cc)
    ELSE IF cc.removed THEN << RescanContent(cc.channel_id, TRUE) >>
    ELSE IF cc.exclude_nodes_added THEN << RescanContent(cc.channel_id, FALSE) >>
    ELSE ImportPair(cc)

\* every update of a channel is answered with a rescan
from_channel_compare_rescan_on_update(cc) ==
    IF cc.added THEN ImportPair(cc)
    ELSE IF cc.removed THEN << RescanContent(cc.channel_id, TRUE) >>
    ELSE << RescanContent(cc.channel_id, FALSE) >>

\* the added branch yields the content import before the channel import
from_channel_compare_content_first(cc) ==
    IF cc.added THEN << ImportPair(cc)[2], ImportPair(cc)[1] >>
    ELSE IF cc.removed THEN << RescanContent(cc.channel_id, TRUE) >>
    ELSE IF cc.exclude_nodes_added THEN << RescanContent(cc.channel_id, FALSE) >>
    ELSE IF cc.include_nodes_removed THEN << RescanContent(cc.channel_id, FALSE) >>
    ELSE ImportPair(cc)

\* KolibriContentOperation.from_channel_compare: the operations it yields, in order
from_channel_compare(cc) ==
    IF cc.added THEN ImportPair(cc)
    ELSE IF cc.removed THEN << RescanContent(cc.channel_id, TRUE) >>
    ELSE IF cc.exclude_nodes_added THEN << RescanContent(cc.channel_id, FALSE) >>
    ELSE IF cc.include_nodes_removed THEN << RescanContent(cc.channel_id, FALSE) >>
    ELSE ImportPair(cc)

(***************************************************************************)
(* The extensions lists (content_extensions.ContentExtensionsList).  An    *)
(* extensions list maps the refs of the extensions it holds to their       *)
(* manifests; a manifest maps the channel ids of the extension to the      *)
(* include and exclude node ids of the channel.                            *)
(***************************************************************************)
ChannelManifest(include_node_ids, exclude_node_ids) ==
    [include_node_ids |-> include_node_ids, exclude_node_ids |-> exclude_node_ids]

\* The channel lists an extension is published with, from one commit to the next.
ManifestVersions ==
    << ("c1" :> ChannelManifest({"n1"}, {})),
       ("c1" :> ChannelManifest({"n1", "n2"}, {}))
           @@ ("c2" :> ChannelManifest({}, {})),
       ("c1" :> ChannelManifest({"n1", "n2"}, {"n3"}))
           @@ ("c2" :> ChannelManifest({}, {})) >>

ContentDir(ref) == <<"content_dir", ref>>

ExtensionManifest(ref, channels) ==
    [extension_id |-> ref, content_dir |-> ContentDir(ref), channels |-> channels]

\* Extension 1 is published in every version, the other ones in the first two.
VersionsOf(ref) == IF ref = 1 THEN DOMAIN ManifestVersions ELSE {1, 2}

ExtensionSets ==
    UNION { { [ref \in D |-> ExtensionManifest(ref, ManifestVersions[v[ref]])] :
                v \in {w \in [D -> DOMAIN ManifestVersions] :
                          \A ref \in D : w[ref] \in VersionsOf(ref)} } :
            D \in SUBSET Extensions }

EmptyExtensionSet == [ref \in {} |-> ExtensionManifest(ref, <<>>)]

RECURSIVE Flatten(_)
Flatten(seqs) ==
    IF seqs = <<>> THEN <<>> ELSE Head(seqs) \o Flatten(Tail(seqs))

RECURSIVE Ascending(_)
Ascending(S) ==
    IF S = {} THEN <<>>
    ELSE LET m == CHOOSE x \in S : \A y \in S : x <= y
         IN  <<m>> \o Ascending(S \ {m})

\* one extension of the comparison of two lists: the ref and the two manifests,
\* a manifest being absent (has_old, has_new) when the list does not hold the ref
ExtensionCompare(old, new, ref) ==
    [ref |-> ref,
     has_old |-> ref \in DOMAIN old,
     has_new |-> ref \in DOMAIN new,
     old_channels |-> IF ref \in DOMAIN old THEN old[ref].channels ELSE <<>>,
     new_channels |-> IF ref \in DOMAIN new THEN new[ref].channels ELSE <<>>,
     extension_dir |-> IF ref \in DOMAIN new THEN new[ref].content_dir ELSE NoDir]

Changed(old, new, ref) ==
    \/ (ref \in DOMAIN old) # (ref \in DOMAIN new)
    \/ ref \in DOMAIN old /\ ref \in DOMAIN new /\ old[ref] # new[ref]

\* ContentExtensionsList.compare: the extensions that differ between the lists
Compare(old, new) ==
    LET refs == Ascending({ref \in DOMAIN old \cup DOMAIN new : Changed(old, new, ref)})
    IN  [i \in DOMAIN refs |-> ExtensionCompare(old, new, refs[i])]

ChannelIds(channels) ==
    SelectSeq(ChannelOrder, LAMBDA c : c \in DOMAIN channels)

\* the channel ids of both manifests: the new manifest's first, then the old-only ones
AllChannelIds(ec) ==
    ChannelIds(ec.new_channels)
        \o SelectSeq(ChannelIds(ec.old_channels), LAMBDA c : c \notin DOMAIN ec.new_channels)

compare_channel(ec, channel_id) ==
    LET has_old == channel_id \in DOMAIN ec.old_channels
        has_new == channel_id \in DOMAIN ec.new_channels
        old_include == IF has_old THEN ec.old_channels[channel_id].include_node_ids ELSE {}
        old_exclude == IF has_old THEN ec.old_channels[channel_id].exclude_node_ids ELSE {}
        new_include == IF has_new THEN ec.new_channels[channel_id].include_node_ids ELSE {}
        new_exclude == IF has_new THEN ec.new_channels[channel_id].exclude_node_ids ELSE {}
    IN  [channel_id |-> channel_id,
         extension_dir |-> ec.extension_dir,
         added |-> ~has_old /\ has_new,
         removed |-> has_old /\ ~has_new,
         new_include_node_ids |-> new_include \ old_include,
         new_exclude_node_ids |-> new_exclude \ old_exclude,
         exclude_nodes_added |-> new_exclude \ old_exclude # {},
         include_nodes_removed |-> old_include \ new_include # {}]

compare_channels(ec) ==
    LET ids == AllChannelIds(ec)
    IN  [i \in DOMAIN ids |-> compare_channel(ec, ids[i])]

(***************************************************************************)
(* Application.                                                            *)
(***************************************************************************)
\* the operations of one extension comparison; ref records the extension an
\* operation was yielded for
ExtensionOperations(ec) ==
    LET ccs == compare_channels(ec)
        ops == Flatten([i \in DOMAIN ccs |-> from_channel_compare(ccs[i])])
    IN  [i \in DOMAIN ops |-> [ref |-> ec.ref, op |-> ops[i]]]

\* a comparison that does not look at the cached list
iter_content_operations_uncached(cached, active) ==
    LET ecs == Compare(EmptyExtensionSet, active)
    IN  Flatten([i \in DOMAIN ecs |-> ExtensionOperations(ecs[i])])

\* the extension comparisons walked from the last one to the first
iter_content_operations_reversed(cached, active) ==
    LET ecs == Compare(cached, active)
    IN  Flatten([i \in DOMAIN ecs |-> ExtensionOperations(ecs[Len(ecs) + 1 - i])])

\* Application.__iter_content_operations: everything the generator yields, in order
iter_content_operations(cached, active) ==
    LET ecs == Compare(cached, active)
    IN  Flatten([i \in DOMAIN ecs |-> ExtensionOperations(ecs[i])])

\* a __run_kolibri that swallows CalledProcessError and reports 0
run_kolibri_swallowing(returncode) ==
    [raised |-> FALSE, returncode |-> 0]

\* subprocess.run without check=True: the status is returned, never raised
run_kolibri_unchecked(returncode) ==
    [raised |-> FALSE, returncode |-> returncode]

\* subprocess.run(..., check=True) for a process that exits with returncode
run_kolibri(returncode) ==
    IF returncode # 0
    THEN [raised |-> TRUE, returncode |-> returncode]
    ELSE [raised |-> FALSE, returncode |-> returncode]

\* an applicator that catches the error of an operation and goes on to the next
all_step_continuing(res) ==
    IF res.raised \/ res.returncode = 0 THEN "operations" ELSE "gate"

\* all(operation.apply(...) == 0 for operation in ...): where run() goes on after
\* one operation was applied
all_step(res) ==
    IF res.raised THEN "raised"
    ELSE IF res.returncode = 0 THEN "operations"
    ELSE "gate"

\* a run() that writes the cache after kolibri has run
run_order_final_first == <<"operations", "final", "gate">>

\* the statements of run() in the order they are executed
run_order == <<"operations", "gate", "final">>

\* the statement run() executes after stmt; after the last one the process exits
after_statement(stmt) ==
    LET i == CHOOSE k \in DOMAIN run_order : run_order[k] = stmt
    IN  IF i < Len(run_order) THEN run_order[i + 1] ELSE "exited"

\* a child started with Popen and not waited for: the statement goes on
waiting_in_popen(stmt) == stmt

\* subprocess.run blocks until the child has exited: where the process waits
\* while the child started by statement stmt runs
waiting_in(stmt) == IF stmt = "operations" THEN "applying" ELSE "finishing"

\* a success flag that is only set once an operation has succeeded
all_exhausted_needs_one(n) == n > 0

\* all(...) of a generator that ended after n operations, none of them failing
all_exhausted(n) == TRUE

\* the single command-line argument spelled by the parts
Word(s) == <<s>>

\* ','.join(ids)
comma_join(ids) == <<"join", ",", ids>>

\* sep.join(seq)
RECURSIVE join(_, _)
join(sep, seq) ==
    IF Len(seq) <= 1 THEN seq ELSE <<Head(seq), sep>> \o join(sep, Tail(seq))

\* a rescan that passes --channel-import-mode=none whether removed is set or not
apply_mode_none_always(op) ==
    IF op.type = "ImportChannel"
    THEN << Word("manage"), Word("scanforcontent"),
            <<"--channels=", op.channel_id>>, Word("--skip-annotations") >>
    ELSE IF op.type = "ImportContent"
    THEN << Word("manage"), Word("importcontent") >>
         \o (IF op.include_node_ids # {}
             THEN << Word("--node_ids"), comma_join(op.include_node_ids) >> ELSE <<>>)
         \o (IF op.exclude_node_ids # {}
             THEN << Word("--exclude_node_ids"), comma_join(op.exclude_node_ids) >>
             ELSE <<>>)
         \o << Word("disk"), Word(op.channel_id),
               IF op.extension_dir # NoDir THEN op.extension_dir ELSE KOLIBRI_HOME >>
    ELSE << Word("manage"), Word("scanforcontent"), <<"--channels=", op.channel_id>>,
            Word("--channel-import-mode=none") >>

\* KolibriContentOperation_*.apply: the arguments run_kolibri_fn is called with
apply(op) ==
    IF op.type = "ImportChannel"
    THEN << Word("manage"), Word("scanforcontent"),
            <<"--channels=", op.channel_id>>, Word("--skip-annotations") >>
    ELSE IF op.type = "ImportContent"
    THEN << Word("manage"), Word("importcontent") >>
         \o (IF op.include_node_ids # {}
             THEN << Word("--node_ids"), comma_join(op.include_node_ids) >> ELSE <<>>)
         \o (IF op.exclude_node_ids # {}
             THEN << Word("--exclude_node_ids"), comma_join(op.exclude_node_ids) >>
             ELSE <<>>)
         \o << Word("disk"), Word(op.channel_id),
               IF op.extension_dir # NoDir THEN op.extension_dir ELSE KOLIBRI_HOME >>
    ELSE << Word("manage"), Word("scanforcontent"), <<"--channels=", op.channel_id>> >>
         \o (IF op.removed THEN << Word("--channel-import-mode=none") >> ELSE <<>>)

\* the extensions of a list in the order the list is iterated
iterate(extensions) ==
    LET refs == Ascending(DOMAIN extensions)
    IN  [i \in DOMAIN refs |-> extensions[refs[i]]]

\* the fallback directories taken from the cached list
kolibri_env_of_cached(cached, active) ==
    LET extensions == iterate(cached)
    IN  join(Word(";"), [i \in DOMAIN extensions |-> extensions[i].content_dir])

\* Application.__kolibri_env: the value of KOLIBRI_CONTENT_FALLBACK_DIRS
kolibri_env(cached, active) ==
    LET extensions == iterate(active)
    IN  join(Word(";"), [i \in DOMAIN extensions |-> extensions[i].content_dir])

\* sys.argv[1:]
sys_argv == << Word("start"), Word("--foreground") >>

\* the exit status of the wrapper process: an exception that leaves main() ends
\* the interpreter with status 1
exit_status(res) == IF res.raised THEN 1 ELSE res.returncode

from_cache(cache) == cache

from_flatpak_info(extensions) == extensions

\* a write_to_cache called on the cached list instead of the active one
write_to_cache_of_cached(cached, active) == cached

\* self.__active_extensions.write_to_cache(): the new content of the cache file
write_to_cache(cached, active) == active

NoCompare ==
    [channel_id |-> "c1", extension_dir |-> NoDir, added |-> FALSE, removed |-> FALSE,
     new_include_node_ids |-> {}, new_exclude_node_ids |-> {},
     exclude_nodes_added |-> FALSE, include_nodes_removed |-> FALSE]

Init ==
    /\ disk_cache \in ExtensionSets
    /\ installed \in ExtensionSets
    /\ cached_extensions = EmptyExtensionSet
    /\ active_extensions = EmptyExtensionSet
    /\ pc = "start"
    /\ plan = <<>>
    /\ idx = 0
    /\ success = FALSE
    /\ invocations = <<>>
    /\ running = <<>>
    /\ cache_writes = 0
    /\ result = [raised |-> FALSE, returncode |-> 0]
    /\ previous = "none"
    /\ channel_compare = NoCompare
    /\ yielded = <<>>

\* main(): a new process constructs the Application and enters run()
Main ==
    /\ pc \in {"start", "exited", "raised"}
    /\ cached_extensions' = from_cache(disk_cache)
    /\ active_extensions' = from_flatpak_info(installed)
    /\ plan' = iter_content_operations(from_cache(disk_cache), from_flatpak_info(installed))
    /\ idx' = 0
    /\ success' = FALSE
    /\ invocations' = <<>>
    /\ running' = <<>>
    /\ cache_writes' = 0
    /\ result' = [raised |-> FALSE, returncode |-> 0]
    /\ previous' = IF pc = "start" THEN "none" ELSE pc
    /\ pc' = "operations"
    /\ UNCHANGED <<disk_cache, installed, channel_compare, yielded>>

\* one step of all(...): the next operation of the generator is applied and
\* __run_kolibri starts the kolibri process for it
ApplyOperation ==
    /\ pc = "operations"
    /\ idx < Len(plan)
    /\ running' = Append(running,
           [kind |-> "operation", entry |-> plan[idx + 1],
            argv |-> <<KOLIBRI>> \o apply(plan[idx + 1].op),
            env |-> kolibri_env(cached_extensions, active_extensions)])
    /\ idx' = idx + 1
    /\ pc' = waiting_in("operations")
    /\ UNCHANGED <<disk_cache, installed, cached_extensions, active_extensions, plan,
                   success, invocations, cache_writes, result, previous,
                   channel_compare, yielded>>

\* the kolibri process of the operation exits and subprocess.run returns or raises
OperationReturns ==
    /\ pc = "applying"
    /\ \E returncode \in ExitCodes :
          LET res == run_kolibri(returncode)
              step == all_step(res)
          IN  /\ invocations' = Append(invocations,
                     [kind |-> "operation", entry |-> Head(running).entry,
                      argv |-> Head(running).argv, env |-> Head(running).env,
                      returncode |-> returncode])
              /\ running' = Tail(running)
              /\ pc' = IF step = "gate" THEN after_statement("operations") ELSE step
              /\ result' = IF step = "raised" THEN res ELSE result
              /\ success' = IF step = "gate" THEN FALSE ELSE success
    /\ UNCHANGED <<disk_cache, installed, cached_extensions, active_extensions, plan,
                   idx, cache_writes, previous, channel_compare, yielded>>

\* the generator is exhausted: all(...) returns
AllApplied ==
    /\ pc = "operations"
    /\ idx = Len(plan)
    /\ success' = all_exhausted(idx)
    /\ pc' = after_statement("operations")
    /\ UNCHANGED <<disk_cache, installed, cached_extensions, active_extensions, plan, idx,
                   invocations, running, cache_writes, result, previous,
                   channel_compare, yielded>>

\* if success: self.__active_extensions.write_to_cache()
CacheGate ==
    /\ pc = "gate"
    /\ IF success
       THEN /\ disk_cache' = write_to_cache(cached_extensions, active_extensions)
            /\ cache_writes' = cache_writes + 1
       ELSE UNCHANGED <<disk_cache, cache_writes>>
    /\ pc' = after_statement("gate")
    /\ UNCHANGED <<installed, cached_extensions, active_extensions, plan, idx, success,
                   invocations, running, result, previous, channel_compare, yielded>>

\* return self.__run_kolibri(*sys.argv[1:]): the kolibri process is started
FinalRun ==
    /\ pc = "final"
    /\ running' = Append(running,
           [kind |-> "final", argv |-> <<KOLIBRI>> \o sys_argv,
            env |-> kolibri_env(cached_extensions, active_extensions)])
    /\ pc' = waiting_in("final")
    /\ UNCHANGED <<disk_cache, installed, cached_extensions, active_extensions, plan, idx,
                   success, invocations, cache_writes, result, previous,
                   channel_compare, yielded>>

\* the final kolibri process exits and subprocess.run returns or raises
FinalReturns ==
    /\ pc = "finishing"
    /\ \E returncode \in ExitCodes :
          LET res == run_kolibri(returncode)
          IN  /\ invocations' = Append(invocations,
                     [kind |-> "final", argv |-> Head(running).argv,
                      env |-> Head(running).env, returncode |-> returncode])
              /\ running' = Tail(running)
              /\ result' = res
              /\ pc' = IF res.raised THEN "raised" ELSE after_statement("final")
    /\ UNCHANGED <<disk_cache, installed, cached_extensions, active_extensions, plan, idx,
                   success, cache_writes, previous, channel_compare, yielded>>

Next ==
    \/ Main
    \/ ApplyOperation
    \/ OperationReturns
    \/ AllApplied
    \/ CacheGate
    \/ FinalRun
    \/ FinalReturns

Spec == Init /\ [][Next]_vars

(***************************************************************************)
(* from_channel_compare as a function of the channel comparison alone.     *)
(***************************************************************************)
ChannelCompares ==
    [channel_id : Channels,
     extension_dir : {NoDir, ContentDir(1)},
     added : BOOLEAN, removed : BOOLEAN,
     new_include_node_ids : SUBSET Nodes,
     new_exclude_node_ids : SUBSET Nodes,
     exclude_nodes_added : BOOLEAN, include_nodes_removed : BOOLEAN]

InitClassify ==
    /\ channel_compare \in ChannelCompares
    /\ yielded = <<>>
    /\ pc = "classify"
    /\ disk_cache = EmptyExtensionSet
    /\ installed = EmptyExtensionSet
    /\ cached_extensions = EmptyExtensionSet
    /\ active_extensions = EmptyExtensionSet
    /\ plan = <<>>
    /\ idx = 0
    /\ success = FALSE
    /\ invocations = <<>>
    /\ running = <<>>
    /\ cache_writes = 0
    /\ result = [raised |-> FALSE, returncode |-> 0]
    /\ previous = "none"

Classify ==
    /\ pc = "classify"
    /\ yielded' = from_channel_compare(channel_compare)
    /\ pc' = "classified"
    /\ UNCHANGED <<disk_cache, installed, cached_extensions, active_extensions, plan,
                   idx, success, invocations, running, cache_writes, result, previous,
                   channel_compare>>

\* every yielded operation is applied to a run_kolibri_fn that records the
\* arguments it is called with and returns 0
ApplyYielded ==
    /\ pc = "classified"
    /\ invocations' =
           [i \in DOMAIN yielded |->
               [kind |-> "operation", entry |-> [ref |-> 0, op |-> yielded[i]],
                argv |-> apply(yielded[i]), env |-> <<>>, returncode |-> 0]]
    /\ pc' = "applied"
    /\ UNCHANGED <<disk_cache, installed, cached_extensions, active_extensions, plan,
                   idx, success, running, cache_writes, result, previous,
                   channel_compare, yielded>>

NextClassify == Classify \/ ApplyYielded

SpecClassify == InitClassify /\ [][NextClassify]_vars

(***************************************************************************)
(* Properties of Application.run (Spec).                                   *)
(***************************************************************************)
\* the content operations applied by this process so far, in order
Applied == SelectSeq(invocations, LAMBDA inv : inv.kind = "operation")

OperationFailed == \E i \in DOMAIN Applied : Applied[i].returncode # 0

AllOperationsSucceeded ==
    /\ Len(Applied) = Len(plan)
    /\ \A i \in DOMAIN Applied : Applied[i].entry = plan[i] /\ Applied[i].returncode = 0

Terminated == pc \in {"exited", "raised"}

\* the process has loaded both lists and its plan is known
Planned ==
    pc \in {"operations", "applying", "gate", "final", "finishing", "exited", "raised"}

\* C1: a process in which an applied content operation exited non-zero never calls
\* write_to_cache, and the cache is written (once) only after every operation
\* of the plan was applied and exited 0.
C1_CacheWriteGating ==
    /\ OperationFailed => cache_writes = 0
    /\ cache_writes > 0 => cache_writes = 1 /\ AllOperationsSucceeded

\* an operation failed after an earlier one had succeeded, and the process is over
C1_Witness ==
    /\ Terminated
    /\ OperationFailed
    /\ Len(Applied) >= 2
    /\ cache_writes = 0

\* C2: the operations are applied in the order of the plan, and an operation that
\* exited non-zero is the last one applied by the process.
C2_ShortCircuit ==
    /\ Len(Applied) <= Len(plan)
    /\ \A i \in DOMAIN Applied :
          /\ Applied[i].entry = plan[i]
          /\ Applied[i].returncode # 0 => i = Len(Applied)
    /\ OperationFailed => Terminated

\* the second operation of a plan of at least four failed; the process ended there
C2_Witness ==
    /\ Terminated
    /\ Len(plan) >= 4
    /\ Len(Applied) = 2
    /\ Applied[2].returncode # 0

\* C3: a process that failed on an operation leaves the cache file as it loaded it,
\* and the next process, started on the same active list, computes the same plan
\* and starts it again from its first operation.
C3_IdempotentRetry ==
    [][ (Terminated /\ OperationFailed)
          => /\ disk_cache = cached_extensions
             /\ disk_cache' = disk_cache
             /\ (pc' = "operations" /\ active_extensions' = active_extensions)
                   => (plan' = plan /\ idx' = 0 /\ cached_extensions' = cached_extensions)
      ]_vars

\* a process started after a failed one is about to apply its first operation again
C3_Witness ==
    /\ previous = "raised"
    /\ pc = "operations"
    /\ idx = 0
    /\ Len(plan) >= 2
    /\ disk_cache # active_extensions

\* C4: when the cached list and the active list are identical the plan is empty
\* and the process applies no content operation.
C4_Idempotence ==
    (Planned /\ cached_extensions = active_extensions)
        => (plan = <<>> /\ Applied = <<>>)

\* a first process on identical non-empty lists has gone through run()
C4_Witness ==
    /\ previous = "none"
    /\ pc = "exited"
    /\ cached_extensions = active_extensions
    /\ Cardinality(DOMAIN active_extensions) >= 2
    /\ plan = <<>>

\* C5: when a process ends, the cache file holds its active list if every content
\* operation succeeded and the list it loaded otherwise; the next process loads
\* exactly that value as its cached list.
C5_CacheAdvance ==
    [][ /\ Terminated' =>
              disk_cache' = IF AllOperationsSucceeded' THEN active_extensions'
                            ELSE cached_extensions'
        /\ (Terminated /\ pc' = "operations") =>
              cached_extensions' = IF AllOperationsSucceeded THEN active_extensions
                                   ELSE cached_extensions
      ]_vars

\* a process started after a successful one finds the active list in the cache
C5_Witness ==
    /\ previous = "exited"
    /\ pc = "operations"
    /\ cached_extensions = active_extensions
    /\ Cardinality(DOMAIN cached_extensions) >= 2

(***************************************************************************)
(* Properties of from_channel_compare (SpecClassify).                      *)
(***************************************************************************)
Classified == pc = "classified"

\* C6: a channel comparison whose added flag is set yields exactly ImportChannel
\* (channel_id, extension_dir) and then ImportContent(channel_id, extension_dir,
\* new_include_node_ids, new_exclude_node_ids), whatever its other flags are.
C6_AddedYieldsImportPair ==
    (Classified /\ channel_compare.added) =>
        yielded = << ImportChannel(channel_compare.channel_id,
                                   channel_compare.extension_dir),
                     ImportContent(channel_compare.channel_id,
                                   channel_compare.extension_dir,
                                   channel_compare.new_include_node_ids,
                                   channel_compare.new_exclude_node_ids) >>

\* an added comparison that also has the removed and both retraction flags set
C6_Witness ==
    /\ Classified
    /\ channel_compare.added /\ channel_compare.removed
    /\ channel_compare.exclude_nodes_added /\ channel_compare.include_nodes_removed
    /\ channel_compare.new_include_node_ids # {}
    /\ Len(yielded) = 2

\* C7: a channel comparison that is removed and not added yields exactly one
\* operation, RescanContent(channel_id, removed=True), whatever its
\* exclude_nodes_added and include_nodes_removed flags are.
C7_RemovedYieldsRescan ==
    (Classified /\ channel_compare.removed /\ ~channel_compare.added) =>
        /\ yielded = << RescanContent(channel_compare.channel_id, TRUE) >>
        /\ \A i \in DOMAIN yielded :
              yielded[i].type \notin {"ImportChannel", "ImportContent"}

\* a removed comparison with both retraction flags set
C7_Witness ==
    /\ Classified
    /\ channel_compare.removed /\ ~channel_compare.added
    /\ channel_compare.exclude_nodes_added /\ channel_compare.include_nodes_removed
    /\ Len(yielded) = 1

\* C8: a channel comparison that is neither added nor removed and has
\* exclude_nodes_added or include_nodes_removed set yields exactly one operation,
\* RescanContent(channel_id, removed=False), also when it carries new include or
\* exclude node ids.
C8_RetractionYieldsRescan ==
    (/\ Classified
     /\ ~channel_compare.added /\ ~channel_compare.removed
     /\ channel_compare.exclude_nodes_added \/ channel_compare.include_nodes_removed) =>
        /\ yielded = << RescanContent(channel_compare.channel_id, FALSE) >>
        /\ \A i \in DOMAIN yielded :
              yielded[i].type \notin {"ImportChannel", "ImportContent"}

\* only include_nodes_removed is set and the comparison carries new include ids
C8_Witness ==
    /\ Classified
    /\ ~channel_compare.added /\ ~channel_compare.removed
    /\ ~channel_compare.exclude_nodes_added /\ channel_compare.include_nodes_removed
    /\ channel_compare.new_include_node_ids # {}
    /\ channel_compare.new_exclude_node_ids # {}
    /\ Len(yielded) = 1

(***************************************************************************)
(* Properties of the plan (Spec).                                          *)
(***************************************************************************)
\* the operations of the plan yielded for channel channel_id of extension ref
OperationsFor(ref, channel_id) ==
    LET entries == SelectSeq(plan, LAMBDA e : e.ref = ref /\ e.op.channel_id = channel_id)
    IN  [i \in DOMAIN entries |-> entries[i].op]

Types(ops) == [i \in DOMAIN ops |-> ops[i].type]

InBothSnapshots(ref, channel_id) ==
    /\ ref \in DOMAIN cached_extensions
    /\ ref \in DOMAIN active_extensions
    /\ channel_id \in DOMAIN cached_extensions[ref].channels
    /\ channel_id \in DOMAIN active_extensions[ref].channels

OldChannel(ref, channel_id) == cached_extensions[ref].channels[channel_id]
NewChannel(ref, channel_id) == active_extensions[ref].channels[channel_id]

\* both sets of the channel only grew, and at least one of them did grow
MonotonicGrowth(ref, channel_id) ==
    LET old == OldChannel(ref, channel_id)
        new == NewChannel(ref, channel_id)
    IN  /\ old.include_node_ids \subseteq new.include_node_ids
        /\ old.exclude_node_ids \subseteq new.exclude_node_ids
        /\ old # new

\* the include set grew and the exclude set is the same
IncludeGrowth(ref, channel_id) ==
    LET old == OldChannel(ref, channel_id)
        new == NewChannel(ref, channel_id)
    IN  /\ old.include_node_ids \subseteq new.include_node_ids
        /\ old.include_node_ids # new.include_node_ids
        /\ old.exclude_node_ids = new.exclude_node_ids

\* C9 as stated: a channel of both snapshots whose include and exclude sets only
\* grew, one of them by at least one id, gets exactly one ImportChannel followed by
\* one ImportContent and no RescanContent.
C9_MonotonicGrowthImports ==
    Planned =>
        \A ref \in Extensions, channel_id \in Channels :
            (InBothSnapshots(ref, channel_id) /\ MonotonicGrowth(ref, channel_id)) =>
                Types(OperationsFor(ref, channel_id)) = <<"ImportChannel", "ImportContent">>

\* C9 as amended: a channel of both snapshots whose include set grew by at least
\* one id and lost none, and whose exclude set is unchanged, gets exactly one
\* ImportChannel followed by one ImportContent and no RescanContent.
C9_IncludeGrowthImports ==
    Planned =>
        \A ref \in Extensions, channel_id \in Channels :
            (InBothSnapshots(ref, channel_id) /\ IncludeGrowth(ref, channel_id)) =>
                Types(OperationsFor(ref, channel_id)) = <<"ImportChannel", "ImportContent">>

\* the include set of channel c1 of extension 1 grew from one run to the next, and
\* the process has applied the two imports planned for it
C9_Witness ==
    /\ Planned
    /\ InBothSnapshots(1, "c1")
    /\ IncludeGrowth(1, "c1")
    /\ \E i \in DOMAIN Applied : i + 1 \in DOMAIN Applied
          /\ Applied[i].entry.ref = 1 /\ Applied[i].entry.op.channel_id = "c1"
          /\ Applied[i].entry.op.type = "ImportChannel"
          /\ Applied[i + 1].entry.op.type = "ImportContent"

\* C10: every channel of an extension that the active list holds and the cached
\* list does not gets an ImportChannel immediately followed by an ImportContent
\* in the plan, and no RescanContent.
C10_AddedExtensionsImported ==
    Planned =>
        \A ref \in DOMAIN active_extensions \ DOMAIN cached_extensions :
            \A channel_id \in DOMAIN active_extensions[ref].channels :
                /\ \E i \in DOMAIN plan :
                      /\ i + 1 \in DOMAIN plan
                      /\ plan[i].ref = ref /\ plan[i + 1].ref = ref
                      /\ plan[i].op.type = "ImportChannel"
                      /\ plan[i].op.channel_id = channel_id
                      /\ plan[i + 1].op.type = "ImportContent"
                      /\ plan[i + 1].op.channel_id = channel_id
                /\ \A i \in DOMAIN OperationsFor(ref, channel_id) :
                      OperationsFor(ref, channel_id)[i].type # "RescanContent"

\* the cache is empty and the active list holds at least two extensions, one of
\* them with two channels: the plan is the full import of all of them
C10_Witness ==
    /\ Planned
    /\ cached_extensions = EmptyExtensionSet
    /\ Cardinality(DOMAIN active_extensions) >= 2
    /\ \E ref \in DOMAIN active_extensions :
          Cardinality(DOMAIN active_extensions[ref].channels) = 2
    /\ Len(plan) >= 6

\* C11: every channel of an extension that the cached list holds and the active
\* list does not gets exactly one operation in the plan, RescanContent(channel_id,
\* removed=True).
C11_RemovedExtensionsRescanned ==
    Planned =>
        \A ref \in DOMAIN cached_extensions \ DOMAIN active_extensions :
            \A channel_id \in DOMAIN cached_extensions[ref].channels :
                OperationsFor(ref, channel_id) = << RescanContent(channel_id, TRUE) >>

\* nothing is installed any more, the cache holds at least two extensions, one of
\* them with two channels, and the process has applied a rescan for each channel
C11_Witness ==
    /\ Planned
    /\ active_extensions = EmptyExtensionSet
    /\ Cardinality(DOMAIN cached_extensions) >= 2
    /\ \E ref \in DOMAIN cached_extensions :
          Cardinality(DOMAIN cached_extensions[ref].channels) = 2
    /\ Len(plan) >= 3
    /\ Len(Applied) = Len(plan)

\* the refs of the extension comparisons, in the order compare yields them
ComparedRefs ==
    LET ecs == Compare(cached_extensions, active_extensions)
    IN  [i \in DOMAIN ecs |-> ecs[i].ref]

PositionIn(seq, x) == CHOOSE i \in DOMAIN seq : seq[i] = x

\* the channel ids of extension ref, in the order compare_channels yields them
ComparedChannels(ref) ==
    AllChannelIds(ExtensionCompare(cached_extensions, active_extensions, ref))

Unchanged(ref) ==
    /\ ref \in DOMAIN cached_extensions
    /\ ref \in DOMAIN active_extensions
    /\ cached_extensions[ref] = active_extensions[ref]

\* C12: the plan is grouped by extension in the order the comparison of the lists
\* yields the extensions, inside an extension by channel in the order
\* compare_channels yields them, the one or two operations of a channel stand
\* together, and an unchanged extension has no operation in the plan.
C12_PlanOrdering ==
    (pc = "operations" /\ idx = 0) =>
        LET refs == ComparedRefs
            ref_at == [i \in DOMAIN plan |-> PositionIn(refs, plan[i].ref)]
            channel_at ==
                [i \in DOMAIN plan |->
                    PositionIn(ComparedChannels(plan[i].ref), plan[i].op.channel_id)]
        IN  /\ \A i \in DOMAIN plan :
                  /\ \E k \in DOMAIN refs : refs[k] = plan[i].ref
                  /\ ~Unchanged(plan[i].ref)
                  /\ Len(OperationsFor(plan[i].ref, plan[i].op.channel_id)) \in {1, 2}
            /\ \A i, j \in DOMAIN plan :
                  i < j =>
                     /\ ref_at[i] <= ref_at[j]
                     /\ plan[i].ref = plan[j].ref => channel_at[i] <= channel_at[j]

\* extension 1 added with two channels, extension 2 unchanged, extension 3 removed
\* with one channel: four operations for 1, none for 2, one rescan for 3
C12_Witness ==
    /\ Planned
    /\ DOMAIN cached_extensions = {2, 3}
    /\ DOMAIN active_extensions = {1, 2}
    /\ Unchanged(2)
    /\ DOMAIN active_extensions[1].channels = {"c1", "c2"}
    /\ DOMAIN cached_extensions[3].channels = {"c1"}
    /\ Len(plan) = 5
    /\ \A i \in 1..4 : plan[i].ref = 1
    /\ Types([i \in 1..4 |-> plan[i].op])
          = <<"ImportChannel", "ImportContent", "ImportChannel", "ImportContent">>
    /\ plan[5] = [ref |-> 3, op |-> RescanContent("c1", TRUE)]

(***************************************************************************)
(* Properties of the kolibri invocations (Spec).                           *)
(***************************************************************************)
FinalStarted ==
    \/ \E i \in DOMAIN running : running[i].kind = "final"
    \/ \E i \in DOMAIN invocations : invocations[i].kind = "final"

IsOperation(inv, type) == inv.kind = "operation" /\ inv.entry.op.type = type

\* C13: at most one kolibri process is in progress at any time, and the ImportContent
\* of a channel is started (and has run) only right after the ImportChannel of the
\* same channel returned with exit status 0 in the same process.
C13_StrictlySequential ==
    /\ Len(running) <= 1
    /\ \A i \in DOMAIN running :
          IsOperation(running[i], "ImportContent") =>
              /\ invocations # <<>>
              /\ IsOperation(invocations[Len(invocations)], "ImportChannel")
              /\ invocations[Len(invocations)].entry.ref = running[i].entry.ref
              /\ invocations[Len(invocations)].entry.op.channel_id
                     = running[i].entry.op.channel_id
              /\ invocations[Len(invocations)].returncode = 0
    /\ \A i \in DOMAIN invocations :
          IsOperation(invocations[i], "ImportContent") =>
              /\ i > 1
              /\ IsOperation(invocations[i - 1], "ImportChannel")
              /\ invocations[i - 1].entry.ref = invocations[i].entry.ref
              /\ invocations[i - 1].entry.op.channel_id
                     = invocations[i].entry.op.channel_id
              /\ invocations[i - 1].returncode = 0

\* the ImportContent of the second channel of an extension is in progress
C13_Witness ==
    /\ Len(running) = 1
    /\ IsOperation(Head(running), "ImportContent")
    /\ Head(running).entry.op.channel_id = "c2"
    /\ Len(invocations) >= 3

\* C14 as stated: when the final kolibri process has exited, run() returns its exit
\* status, zero or not.
C14_ExitCodeReturned ==
    (Terminated /\ invocations # <<>> /\ invocations[Len(invocations)].kind = "final") =>
        /\ ~result.raised
        /\ result.returncode = invocations[Len(invocations)].returncode

\* C15: a process in which a content operation exited non-zero ends with a non-zero
\* exit status.
C15_FailureReported ==
    (Terminated /\ OperationFailed) => exit_status(result) # 0

\* the third operation of a plan failed and the process ended with status 1
C15_Witness ==
    /\ Terminated
    /\ OperationFailed
    /\ Len(Applied) = 3
    /\ exit_status(result) = 1

InProcess == pc \in {"operations", "applying", "gate", "final", "finishing"}

\* C16: inside one process the cache is written at most once, with no content
\* operation in progress and before the final kolibri process is started; once the
\* final process is started no content operation is applied and the cache is not
\* written any more; the final process carries sys.argv[1:] unmodified.
C16_PhaseOrdering ==
    [][ InProcess =>
          /\ cache_writes' # cache_writes =>
                (cache_writes = 0 /\ cache_writes' = 1 /\ running = <<>> /\ ~FinalStarted)
          /\ (FinalStarted' /\ ~FinalStarted) =>
                /\ running = <<>>
                /\ running' = << [kind |-> "final", argv |-> <<KOLIBRI>> \o sys_argv,
                                  env |-> Head(running').env] >>
                /\ idx = Len(Applied)
          /\ FinalStarted =>
                /\ Applied' = Applied
                /\ cache_writes' = cache_writes
                /\ \A i \in DOMAIN running' : running'[i].kind # "operation"
      ]_vars

\* the final kolibri process runs after four operations and the cache write
C16_Witness ==
    /\ pc = "finishing"
    /\ cache_writes = 1
    /\ Len(Applied) = 4
    /\ Len(running) = 1
    /\ Head(running).kind = "final"

\* the fallback directories as the claim spells them: the content_dir of every
\* active extension in iteration order, separated by ";"
ExpectedFallbackDirs ==
    LET refs == Ascending(DOMAIN active_extensions)
    IN  [k \in 1..(IF refs = <<>> THEN 0 ELSE 2 * Len(refs) - 1) |->
            IF k % 2 = 1 THEN active_extensions[refs[(k + 1) \div 2]].content_dir
            ELSE <<";">>]

\* C17: every kolibri invocation of a process, content operation or final, gets
\* the same KOLIBRI_CONTENT_FALLBACK_DIRS: the content_dir of every active
\* extension, in the iteration order of the active list, joined with ";".
C17_FallbackDirs ==
    /\ \A i \in DOMAIN invocations : invocations[i].env = ExpectedFallbackDirs
    /\ \A i \in DOMAIN running : running[i].env = ExpectedFallbackDirs

\* a process with two active extensions and another cached list has run two
\* operations and the final kolibri process
C17_Witness ==
    /\ pc = "exited"
    /\ Cardinality(DOMAIN active_extensions) = 2
    /\ Cardinality(DOMAIN cached_extensions) = 3
    /\ Len(Applied) >= 2
    /\ Len(invocations[1].env) = 3

\* C19: once a content operation has exited non-zero the process has raised: that
\* operation is the last one applied, the cache is not written, and the final
\* kolibri process is never started.
C19_FailureAborts ==
    OperationFailed =>
        /\ pc = "raised"
        /\ result.raised
        /\ Applied[Len(Applied)].returncode # 0
        /\ \A i \in 1..(Len(Applied) - 1) : Applied[i].returncode = 0
        /\ running = <<>>
        /\ cache_writes = 0
        /\ disk_cache = cached_extensions
        /\ ~FinalStarted

\* the first operation of a plan of at least three failed
C19_Witness ==
    /\ pc = "raised"
    /\ Len(plan) >= 3
    /\ Len(Applied) = 1
    /\ Applied[1].returncode # 0
    /\ ~FinalStarted

\* C20: with an empty plan no content operation is applied, the active list is
\* written to the cache exactly once, and the final kolibri process is started
\* after that.
C20_EmptyPlanSucceeds ==
    (Planned /\ plan = <<>>) =>
        /\ Applied = <<>>
        /\ \A i \in DOMAIN running : running[i].kind = "final"
        /\ pc \in {"operations", "gate"} => (cache_writes = 0 /\ ~FinalStarted)
        /\ pc = "gate" => success
        /\ pc \in {"final", "finishing", "exited", "raised"} =>
              (cache_writes = 1 /\ disk_cache = active_extensions)
        /\ pc = "final" => ENABLED FinalRun
        /\ pc \in {"finishing", "exited", "raised"} => FinalStarted

\* a first process with an empty plan has written the cache and runs kolibri
C20_Witness ==
    /\ previous = "none"
    /\ plan = <<>>
    /\ pc = "finishing"
    /\ cache_writes = 1
    /\ DOMAIN active_extensions # {}

(***************************************************************************)
(* Properties of the apply methods (SpecClassify).                         *)
(***************************************************************************)
Has(argv, word) == \E k \in DOMAIN argv : argv[k] = Word(word)

RescanCommand(op, argv) ==
    /\ Len(argv) >= 3
    /\ argv[1] = Word("manage") /\ argv[2] = Word("scanforcontent")
    /\ argv[3] = <<"--channels=", op.channel_id>>
    /\ Has(argv, "--channel-import-mode=none") <=> op.removed
    /\ ~Has(argv, "--skip-annotations")

ImportChannelCommand(op, argv) ==
    /\ Len(argv) >= 3
    /\ argv[1] = Word("manage") /\ argv[2] = Word("scanforcontent")
    /\ argv[3] = <<"--channels=", op.channel_id>>
    /\ Has(argv, "--skip-annotations")
    /\ ~Has(argv, "--channel-import-mode=none")

ImportContentCommand(op, argv) ==
    /\ Len(argv) >= 5
    /\ argv[1] = Word("manage") /\ argv[2] = Word("importcontent")
    /\ Has(argv, "--node_ids") <=> op.include_node_ids # {}
    /\ Has(argv, "--exclude_node_ids") <=> op.exclude_node_ids # {}
    /\ argv[Len(argv) - 2] = Word("disk")
    /\ argv[Len(argv) - 1] = Word(op.channel_id)
    /\ argv[Len(argv)] = IF op.extension_dir = NoDir THEN KOLIBRI_HOME
                         ELSE op.extension_dir

\* C18: RescanContent runs scanforcontent --channels=<channel_id> with
\* --channel-import-mode=none iff removed and never with --skip-annotations;
\* ImportChannel runs scanforcontent --channels=<channel_id> with
\* --skip-annotations; ImportContent runs importcontent disk <channel_id> <dir>
\* with the node_ids flag iff include_node_ids is non-empty and the
\* exclude_node_ids flag iff exclude_node_ids is non-empty, <dir> being
\* extension_dir, or KOLIBRI_HOME when extension_dir is empty.
C18_CommandMapping ==
    pc = "applied" =>
        /\ Len(invocations) = Len(yielded)
        /\ \A i \in DOMAIN yielded :
              LET op == yielded[i]
                  argv == invocations[i].argv
              IN  /\ op.type = "RescanContent" => RescanCommand(op, argv)
                  /\ op.type = "ImportChannel" => ImportChannelCommand(op, argv)
                  /\ op.type = "ImportContent" => ImportContentCommand(op, argv)

\* a rescan without removed was applied, its command has exactly three arguments
C18_Witness ==
    /\ pc = "applied"
    /\ Len(yielded) = 1
    /\ yielded[1] = RescanContent("c2", FALSE)
    /\ Len(invocations[1].argv) = 3

====
